---- MODULE Spec2Model ----
(***************************************************************************)
(* AgileSprintClient (src/api/sprint.js): the eight sprint operations,     *)
(* each building one request descriptor from the caller's options object   *)
(* and handing it to jiraClient.makeRequest.                               *)
(*                                                                         *)
(* JavaScript objects live on a heap and are passed by reference, so the   *)
(* `delete` statements of the source act on objects the caller still owns. *)
(* Strings are sequences of one-character strings, so that '+' of the      *)
(* source is \o and a URL can be inspected character by character.         *)
(***************************************************************************)
EXTENDS Integers, Sequences, FiniteSets

VARIABLES
    heap,       \* the objects of the caller: address -> (present key -> value)
    log,        \* one record per operation invoked, oldest first
    inflight,   \* the requests Transport accepted; index = id of the deferred
    notified    \* per invocation, what the caller's callback was called with

vars == <<heap, log, inflight, notified>>

\* ------------------------------------------------------------------ bounds
MaxCalls == 2       \* operations invoked in one behaviour of Spec
MaxRequests == 1    \* operations invoked in one behaviour of SpecRequest

\* ------------------------------------------------------- JavaScript values
Undefined == [type |-> "undefined", num |-> 0, str |-> <<>>]
Num(n) == [type |-> "number", num |-> n, str |-> <<>>]
Str(s) == [type |-> "string", num |-> 0, str |-> s]
Bool(b) == [type |-> "boolean", num |-> IF b THEN 1 ELSE 0, str |-> <<>>]
Ref(a) == [type |-> "object", num |-> a, str |-> <<>>]
Fn(i) == [type |-> "function", num |-> i, str |-> <<>>]
Promise(d) == [type |-> "promise", num |-> d, str |-> <<>>]

\* o.k : a key that is not present reads as undefined
Get(o, k) == IF k \in DOMAIN o THEN o[k] ELSE Undefined

\* delete o.k
Delete(o, k) == [x \in DOMAIN o \ {k} |-> o[x]]

\* the heap with the object at address a replaced by o
Store(h, a, o) == [h EXCEPT ![a] = o]

Digits == <<"0", "1", "2", "3", "4", "5", "6", "7", "8", "9">>

RECURSIVE Decimal(_)
Decimal(n) ==
    IF n < 10 THEN <<Digits[n + 1]>>
    ELSE Decimal(n \div 10) \o <<Digits[(n % 10) + 1]>>

\* what `'...' + v` appends for a value v
ToString(v) ==
    CASE v.type = "undefined" -> <<"u", "n", "d", "e", "f", "i", "n", "e", "d">>
      [] v.type = "number" -> Decimal(v.num)
      [] v.type = "string" -> v.str
      [] v.type = "boolean" ->
            IF v.num = 1 THEN <<"t", "r", "u", "e">> ELSE <<"f", "a", "l", "s", "e">>
      [] OTHER -> <<"[", "o", "b", "j", "e", "c", "t", " ", "O", "b", "j", "e", "c", "t", "]">>

\* the string literals of the source
SprintPath == <<"/", "s", "p", "r", "i", "n", "t">>
Slash == <<"/">>
IssueSuffix == <<"/", "i", "s", "s", "u", "e">>
SwapSuffix == <<"/", "s", "w", "a", "p">>

\* ----------------------------------------------------------- jiraClient
\* The collaborators of the constructor argument (this.jiraClient).

AgileBase == <<"h", "/", "r", "e", "s", "t", "/", "a", "g", "i", "l", "e", "/", "1", ".", "0">>

\* URL Resolver: resolve(relativePath) -> absoluteUrl, deterministic
buildAgileURL(path) == AgileBase \o path

\* the payload of an options object is the object under its data key; the
\* result refers to the caller's objects, it does not copy them
parseOptions(h, opts, dataKey) ==
    [suppliedOptions |-> opts, body |-> Get(h[opts.num], "data")]

\* Transport: accepts the descriptor and the callback, returns a new deferred
makeRequest(options, callback, accepted) ==
    [options |-> options, callback |-> callback, returned |-> Promise(accepted + 1)]

\* --------------------------------------------------- outcome of one call
\* heap: the heap when the call ends; resolved: the arguments of the calls of
\* buildAgileURL; requests: the calls of makeRequest; ret: the value returned;
\* threw: the call ended with an exception instead.
Returned(h, paths, reqs, value) ==
    [heap |-> h, resolved |-> paths, requests |-> reqs, ret |-> value, threw |-> FALSE]

\* reading a property of undefined throws a TypeError before anything is built
TypeError(h) ==
    [heap |-> h, resolved |-> <<>>, requests |-> <<>>, ret |-> Undefined, threw |-> TRUE]

\* ------------------------------------------------------------ operations
\* Each takes the heap, the opts argument, the callback argument and the
\* number of requests Transport accepted so far.

createSprint(h, opts, callback, accepted) ==
    LET result == parseOptions(h, opts, "")
        path == SprintPath
        options == [uri |-> buildAgileURL(path),
                    method |-> "POST",
                    followAllRedirects |-> TRUE,
                    suppliedOptions |-> result.suppliedOptions,
                    json |-> TRUE,
                    body |-> result.body]
        req == makeRequest(options, callback, accepted)
    IN  Returned(h, <<path>>, <<req>>, req.returned)

\* getSprint with the path kept on the client and grown by every call
getSprintSharedPath(h, opts, callback, accepted) ==
    IF opts.type = "undefined" THEN TypeError(h)
    ELSE
    LET o == h[opts.num]
        kept == IF log # <<>> /\ log[Len(log)].resolved # <<>>
                THEN log[Len(log)].resolved[1] ELSE SprintPath
        path == kept \o Slash \o ToString(Get(o, "sprintId"))
        options == [uri |-> buildAgileURL(path),
                    method |-> "GET",
                    json |-> TRUE,
                    followAllRedirects |-> TRUE,
                    suppliedOptions |-> opts,
                    qs |-> [k \in {"filter", "startAt", "maxResults"} |-> Get(o, k)]]
        req == makeRequest(options, callback, accepted)
    IN  Returned(h, <<path>>, <<req>>, req.returned)

getSprint(h, opts, callback, accepted) ==
    IF opts.type = "undefined" THEN TypeError(h)
    ELSE
    LET o == h[opts.num]
        path == SprintPath \o Slash \o ToString(Get(o, "sprintId"))
        options == [uri |-> buildAgileURL(path),
                    method |-> "GET",
                    json |-> TRUE,
                    followAllRedirects |-> TRUE,
                    suppliedOptions |-> opts,
                    qs |-> [k \in {"filter", "startAt", "maxResults"} |-> Get(o, k)]]
        req == makeRequest(options, callback, accepted)
    IN  Returned(h, <<path>>, <<req>>, req.returned)

\* updateSprint without `delete result.body.sprintId`
updateSprintKeepsId(h, opts, callback, accepted) ==
    LET result == parseOptions(h, opts, "sprint")
        b == result.body.num
        sprintId == Get(h[b], "sprintId")
        path == SprintPath \o Slash \o ToString(sprintId)
        options == [uri |-> buildAgileURL(path),
                    method |-> "PUT",
                    followAllRedirects |-> TRUE,
                    json |-> TRUE,
                    suppliedOptions |-> result.suppliedOptions,
                    body |-> result.body]
        req == makeRequest(options, callback, accepted)
    IN  Returned(h, <<path>>, <<req>>, req.returned)

updateSprint(h, opts, callback, accepted) ==
    LET result == parseOptions(h, opts, "sprint")
        b == result.body.num
        sprintId == Get(h[b], "sprintId")
        h1 == Store(h, b, Delete(h[b], "sprintId"))
        path == SprintPath \o Slash \o ToString(sprintId)
        options == [uri |-> buildAgileURL(path),
                    method |-> "PUT",
                    followAllRedirects |-> TRUE,
                    json |-> TRUE,
                    suppliedOptions |-> result.suppliedOptions,
                    body |-> result.body]
        req == makeRequest(options, callback, accepted)
    IN  Returned(h1, <<path>>, <<req>>, req.returned)

\* partiallyUpdateSprint left as the copy of updateSprint it started from
partiallyUpdateSprintByPut(h, opts, callback, accepted) ==
    updateSprint(h, opts, callback, accepted)

partiallyUpdateSprint(h, opts, callback, accepted) ==
    LET result == parseOptions(h, opts, "sprint")
        b == result.body.num
        sprintId == Get(h[b], "sprintId")
        h1 == Store(h, b, Delete(h[b], "sprintId"))
        path == SprintPath \o Slash \o ToString(sprintId)
        options == [uri |-> buildAgileURL(path),
                    method |-> "POST",
                    followAllRedirects |-> TRUE,
                    json |-> TRUE,
                    suppliedOptions |-> result.suppliedOptions,
                    body |-> result.body]
        req == makeRequest(options, callback, accepted)
    IN  Returned(h1, <<path>>, <<req>>, req.returned)

\* deleteSprint with `startAt: opts.startAt || 0`
deleteSprintDefaultsStartAt(h, opts, callback, accepted) ==
    IF opts.type = "undefined" THEN TypeError(h)
    ELSE
    LET o == h[opts.num]
        path == SprintPath \o Slash \o ToString(Get(o, "sprintId"))
        options == [uri |-> buildAgileURL(path),
                    method |-> "DELETE",
                    json |-> TRUE,
                    followAllRedirects |-> TRUE,
                    suppliedOptions |-> opts,
                    qs |-> [k \in {"filter", "startAt", "maxResults"} |->
                              IF k = "startAt" /\ Get(o, k) = Undefined
                              THEN Num(0) ELSE Get(o, k)]]
        req == makeRequest(options, callback, accepted)
    IN  Returned(h, <<path>>, <<req>>, req.returned)

\* deleteSprint reading the options object of the first call ever made
deleteSprintStaleOptions(h, opts, callback, accepted) ==
    IF opts.type = "undefined" THEN TypeError(h)
    ELSE
    LET o == h[1]
        path == SprintPath \o Slash \o ToString(Get(o, "sprintId"))
        options == [uri |-> buildAgileURL(path),
                    method |-> "DELETE",
                    json |-> TRUE,
                    followAllRedirects |-> TRUE,
                    suppliedOptions |-> opts,
                    qs |-> [k \in {"filter", "startAt", "maxResults"} |-> Get(o, k)]]
        req == makeRequest(options, callback, accepted)
    IN  Returned(h, <<path>>, <<req>>, req.returned)

deleteSprint(h, opts, callback, accepted) ==
    IF opts.type = "undefined" THEN TypeError(h)
    ELSE
    LET o == h[opts.num]
        path == SprintPath \o Slash \o ToString(Get(o, "sprintId"))
        options == [uri |-> buildAgileURL(path),
                    method |-> "DELETE",
                    json |-> TRUE,
                    followAllRedirects |-> TRUE,
                    suppliedOptions |-> opts,
                    qs |-> [k \in {"filter", "startAt", "maxResults"} |-> Get(o, k)]]
        req == makeRequest(options, callback, accepted)
    IN  Returned(h, <<path>>, <<req>>, req.returned)

\* getSprintIssues with `makeRequest(options)`: the callback is not passed on
getSprintIssuesDropsCallback(h, opts, callback, accepted) ==
    IF opts.type = "undefined" THEN TypeError(h)
    ELSE
    LET o == h[opts.num]
        path == SprintPath \o Slash \o ToString(Get(o, "sprintId")) \o IssueSuffix
        options == [uri |-> buildAgileURL(path),
                    method |-> "GET",
                    json |-> TRUE,
                    followAllRedirects |-> TRUE,
                    suppliedOptions |-> opts,
                    qs |-> [k \in {"startAt", "maxResults", "jql", "validateQuery",
                                   "fields", "expand"} |-> Get(o, k)]]
        req == makeRequest(options, Undefined, accepted)
    IN  Returned(h, <<path>>, <<req>>, req.returned)

\* getSprintIssues with the `delete opts.sprintId` of moveSprintIssues
getSprintIssuesRemovesId(h, opts, callback, accepted) ==
    IF opts.type = "undefined" THEN TypeError(h)
    ELSE
    LET o == h[opts.num]
        h1 == Store(h, opts.num, Delete(o, "sprintId"))
        path == SprintPath \o Slash \o ToString(Get(o, "sprintId")) \o IssueSuffix
        options == [uri |-> buildAgileURL(path),
                    method |-> "GET",
                    json |-> TRUE,
                    followAllRedirects |-> TRUE,
                    suppliedOptions |-> opts,
                    qs |-> [k \in {"startAt", "maxResults", "jql", "validateQuery",
                                   "fields", "expand"} |-> Get(o, k)]]
        req == makeRequest(options, callback, accepted)
    IN  Returned(h1, <<path>>, <<req>>, req.returned)

getSprintIssues(h, opts, callback, accepted) ==
    IF opts.type = "undefined" THEN TypeError(h)
    ELSE
    LET o == h[opts.num]
        path == SprintPath \o Slash \o ToString(Get(o, "sprintId")) \o IssueSuffix
        options == [uri |-> buildAgileURL(path),
                    method |-> "GET",
                    json |-> TRUE,
                    followAllRedirects |-> TRUE,
                    suppliedOptions |-> opts,
                    qs |-> [k \in {"startAt", "maxResults", "jql", "validateQuery",
                                   "fields", "expand"} |-> Get(o, k)]]
        req == makeRequest(options, callback, accepted)
    IN  Returned(h, <<path>>, <<req>>, req.returned)

\* moveSprintIssues building its body as a new object without sprintId and
\* leaving the caller's options object alone
moveSprintIssuesCopiesOptions(h, opts, callback, accepted) ==
    IF opts.type = "undefined" THEN TypeError(h)
    ELSE
    LET sprintId == Get(h[opts.num], "sprintId")
        h1 == Append(h, Delete(h[opts.num], "sprintId"))
        path == SprintPath \o Slash \o ToString(sprintId) \o IssueSuffix
        options == [uri |-> buildAgileURL(path),
                    method |-> "POST",
                    followAllRedirects |-> TRUE,
                    suppliedOptions |-> opts,
                    json |-> TRUE,
                    body |-> Ref(Len(h) + 1)]
        req == makeRequest(options, callback, accepted)
    IN  Returned(h1, <<path>>, <<req>>, req.returned)

moveSprintIssues(h, opts, callback, accepted) ==
    IF opts.type = "undefined" THEN TypeError(h)
    ELSE
    LET sprintId == Get(h[opts.num], "sprintId")
        h1 == Store(h, opts.num, Delete(h[opts.num], "sprintId"))
        path == SprintPath \o Slash \o ToString(sprintId) \o IssueSuffix
        options == [uri |-> buildAgileURL(path),
                    method |-> "POST",
                    followAllRedirects |-> TRUE,
                    suppliedOptions |-> opts,
                    json |-> TRUE,
                    body |-> opts]
        req == makeRequest(options, callback, accepted)
    IN  Returned(h1, <<path>>, <<req>>, req.returned)

\* swapSprint resolving '/sprint/' + sprintId and appending '/swap' itself
swapSprintAppendsToUrl(h, opts, callback, accepted) ==
    LET result == parseOptions(h, opts, "swapped")
        b == result.body.num
        sprintId == Get(h[b], "sprintId")
        h1 == Store(h, b, Delete(h[b], "sprintId"))
        path == SprintPath \o Slash \o ToString(sprintId)
        options == [uri |-> buildAgileURL(path) \o SwapSuffix,
                    method |-> "POST",
                    followAllRedirects |-> TRUE,
                    suppliedOptions |-> result.suppliedOptions,
                    json |-> TRUE,
                    body |-> result.body]
        req == makeRequest(options, callback, accepted)
    IN  Returned(h1, <<path>>, <<req>>, req.returned)

swapSprint(h, opts, callback, accepted) ==
    LET result == parseOptions(h, opts, "swapped")
        b == result.body.num
        sprintId == Get(h[b], "sprintId")
        h1 == Store(h, b, Delete(h[b], "sprintId"))
        path == SprintPath \o Slash \o ToString(sprintId) \o SwapSuffix
        options == [uri |-> buildAgileURL(path),
                    method |-> "POST",
                    followAllRedirects |-> TRUE,
                    suppliedOptions |-> result.suppliedOptions,
                    json |-> TRUE,
                    body |-> result.body]
        req == makeRequest(options, callback, accepted)
    IN  Returned(h1, <<path>>, <<req>>, req.returned)

\* the method table the constructor installs on the client
Apply(op, h, opts, callback, accepted) ==
    CASE op = "createSprint" -> createSprint(h, opts, callback, accepted)
      [] op = "getSprint" -> getSprint(h, opts, callback, accepted)
      [] op = "updateSprint" -> updateSprint(h, opts, callback, accepted)
      [] op = "partiallyUpdateSprint" -> partiallyUpdateSprint(h, opts, callback, accepted)
      [] op = "deleteSprint" -> deleteSprint(h, opts, callback, accepted)
      [] op = "getSprintIssues" -> getSprintIssues(h, opts, callback, accepted)
      [] op = "moveSprintIssues" -> moveSprintIssues(h, opts, callback, accepted)
      [] op = "swapSprint" -> swapSprint(h, opts, callback, accepted)

Operations ==
    {"createSprint", "getSprint", "updateSprint", "partiallyUpdateSprint",
     "deleteSprint", "getSprintIssues", "moveSprintIssues", "swapSprint"}

\* the operations whose JSDoc puts the fields under opts.data; the others
\* take them from opts itself
PayloadOperations == {"createSprint", "updateSprint", "partiallyUpdateSprint", "swapSprint"}

\* ------------------------------------------------------------ the callers
\* Identifiers a caller supplies: a number, a string, or none at all.
SprintIds == {Num(331), Str(<<"7">>)}

IdChoices == SprintIds \cup {Undefined}

\* the value a caller gives each field it supplies
OptionValue(k) ==
    CASE k = "filter" -> Str(<<"m", "y">>)
      [] k = "startAt" -> Num(0)
      [] k = "maxResults" -> Num(50)
      [] k = "jql" -> Str(<<"a", "=", "b">>)
      [] k = "validateQuery" -> Bool(FALSE)
      [] k = "fields" -> Str(<<"k", "e", "y">>)
      [] k = "expand" -> Str(<<"x">>)
      [] k = "issues" -> Str(<<"I", "-", "1">>)
      [] k = "rankBeforeIssue" -> Str(<<"I", "-", "2">>)
      [] k = "name" -> Str(<<"S", "5">>)
      [] k = "sprintToSwapWith" -> Num(3)

\* the field sets a caller writes beside sprintId, per operation; wide is
\* the family of SpecRequest, the other one the family of Spec
FieldSets(op, wide) ==
    CASE ~wide /\ op \in PayloadOperations -> {{"name"}}
      [] ~wide -> {{"maxResults", "issues"}}
      [] op \in {"getSprint", "deleteSprint"} ->
            (SUBSET {"filter", "startAt", "maxResults"}) \cup {{"maxResults", "expand"}}
      [] op = "getSprintIssues" ->
            (SUBSET {"startAt", "jql", "validateQuery"})
                \cup {{"startAt", "maxResults", "jql", "validateQuery", "fields", "expand"},
                      {"fields", "expand", "filter"}}
      [] op = "moveSprintIssues" -> {{}, {"issues"}, {"issues", "rankBeforeIssue"}}
      [] OTHER -> SUBSET {"name", "sprintToSwapWith"}

\* the object literal { sprintId: id, k: OptionValue(k), ... }
Literal(id, keys) ==
    [k \in keys \cup (IF id = Undefined THEN {} ELSE {"sprintId"}) |->
        IF k = "sprintId" THEN id ELSE OptionValue(k)]

Addrs == 1..Len(heap)

HasData(a) == "data" \in DOMAIN heap[a]

IsPayload(a) == \E b \in Addrs : HasData(b) /\ heap[b]["data"] = Ref(a)

\* What a caller passes as opts: alloc are the objects it writes for this
\* call (none when it passes an object it already has), opts the argument.
\*   op({ sprintId: ..., ... })  or  op({ data: { sprintId: ..., ... } })
FreshArgs(op, wide) ==
    IF op \in PayloadOperations
    THEN {[alloc |-> <<Literal(id, keys), [k \in {"data"} |-> Ref(Len(heap) + 1)]>>,
           opts |-> Ref(Len(heap) + 2)] : id \in IdChoices, keys \in FieldSets(op, wide)}
    ELSE {[alloc |-> <<Literal(id, keys)>>,
           opts |-> Ref(Len(heap) + 1)] : id \in IdChoices, keys \in FieldSets(op, wide)}

\*   op(o) for an options object o of an earlier call
ReusedArgs(op) ==
    {[alloc |-> <<>>, opts |-> Ref(a)] :
        a \in {x \in Addrs : ~IsPayload(x) /\ (HasData(x) <=> op \in PayloadOperations)}}

\*   op() : no options at all
MissingArgs(op) ==
    IF op \in PayloadOperations THEN {} ELSE {[alloc |-> <<>>, opts |-> Undefined]}

Args(op, wide) == FreshArgs(op, wide) \cup ReusedArgs(op) \cup MissingArgs(op)

\* the callback of the next invocation, when the caller passes one
Callbacks == {Undefined, Fn(Len(log) + 1)}

Init ==
    /\ heap = <<>>
    /\ log = <<>>
    /\ inflight = <<>>
    /\ notified = <<>>

\* one invocation of an operation, from the call to its return or throw
Invoke(op, arg, callback) ==
    LET h0 == heap \o arg.alloc
        r == Apply(op, h0, arg.opts, callback, Len(inflight))
    IN  /\ heap' = r.heap
        /\ log' = Append(log, [op |-> op, opts |-> arg.opts, callback |-> callback,
                               fresh |-> arg.alloc # <<>>,
                               before |-> h0, after |-> r.heap,
                               resolved |-> r.resolved, requests |-> r.requests,
                               ret |-> r.ret, threw |-> r.threw])
        /\ inflight' = inflight \o
              [i \in 1..Len(r.requests) |->
                  [options |-> r.requests[i].options,
                   callback |-> r.requests[i].callback,
                   outcome |-> "pending"]]
        /\ notified' = Append(notified, <<>>)

CreateSprint ==
    /\ Len(log) < MaxCalls
    /\ \E arg \in Args("createSprint", FALSE), cb \in Callbacks :
          Invoke("createSprint", arg, cb)

GetSprint ==
    /\ Len(log) < MaxCalls
    /\ \E arg \in Args("getSprint", FALSE), cb \in Callbacks :
          Invoke("getSprint", arg, cb)

UpdateSprint ==
    /\ Len(log) < MaxCalls
    /\ \E arg \in Args("updateSprint", FALSE), cb \in Callbacks :
          Invoke("updateSprint", arg, cb)

PartiallyUpdateSprint ==
    /\ Len(log) < MaxCalls
    /\ \E arg \in Args("partiallyUpdateSprint", FALSE), cb \in Callbacks :
          Invoke("partiallyUpdateSprint", arg, cb)

DeleteSprint ==
    /\ Len(log) < MaxCalls
    /\ \E arg \in Args("deleteSprint", FALSE), cb \in Callbacks :
          Invoke("deleteSprint", arg, cb)

GetSprintIssues ==
    /\ Len(log) < MaxCalls
    /\ \E arg \in Args("getSprintIssues", FALSE), cb \in Callbacks :
          Invoke("getSprintIssues", arg, cb)

MoveSprintIssues ==
    /\ Len(log) < MaxCalls
    /\ \E arg \in Args("moveSprintIssues", FALSE), cb \in Callbacks :
          Invoke("moveSprintIssues", arg, cb)

SwapSprint ==
    /\ Len(log) < MaxCalls
    /\ \E arg \in Args("swapSprint", FALSE), cb \in Callbacks :
          Invoke("swapSprint", arg, cb)

Next ==
    \/ MoveSprintIssues
    \/ GetSprint
    \/ DeleteSprint
    \/ GetSprintIssues
    \/ CreateSprint
    \/ UpdateSprint
    \/ PartiallyUpdateSprint
    \/ SwapSprint

\* callers invoking the operations one after another, on new options
\* objects and on the ones they passed before
Spec == Init /\ [][Next]_vars

\* --------------------------------------------- one request, start to end
\* any operation, on any options object of the wide family
Request ==
    /\ Len(log) < MaxRequests
    /\ \E op \in Operations :
          \E arg \in Args(op, TRUE), cb \in Callbacks : Invoke(op, arg, cb)

\* Transport outcomes
Outcomes == {"resolved", "rejected"}

\* Transport finishes one request: it settles the deferred it returned and
\* calls the callback it was given, both with the same outcome
Settle ==
    \E d \in 1..Len(inflight), R \in Outcomes :
        /\ inflight[d].outcome = "pending"
        /\ inflight' = [inflight EXCEPT ![d].outcome = R]
        /\ notified' =
              IF inflight[d].callback.type = "function"
              THEN [notified EXCEPT ![inflight[d].callback.num] = Append(@, R)]
              ELSE notified
        /\ UNCHANGED <<heap, log>>

NextRequest ==
    \/ Request
    \/ Settle

SpecRequest == Init /\ [][NextRequest]_vars

\* ------------------------------------------------- reading the log
\* the descriptor an invocation handed to Transport
Handed(e) == e.requests[1].options

\* the object that carries the identifier: the payload under opts.data for
\* the full update, the partial update and the swap, the options otherwise
IdSource(e) ==
    IF e.op \in {"updateSprint", "partiallyUpdateSprint", "swapSprint"}
    THEN e.before[e.opts.num]["data"].num
    ELSE e.opts.num

\* the identifier the caller supplied, undefined when it supplied none
SuppliedId(e) == Get(e.before[IdSource(e)], "sprintId")

WithOptions(e) == e.opts.type = "object"

IsPrefix(p, t) == Len(p) <= Len(t) /\ SubSeq(t, 1, Len(p)) = p

\* a value with every object reference replaced by the object's content
RECURSIVE Deep(_, _)
Deep(h, v) ==
    IF v.type = "object"
    THEN [type |-> "object", props |-> [k \in DOMAIN h[v.num] |-> Deep(h, h[v.num][k])]]
    ELSE v

\* a descriptor as Transport reads it in heap h
DeepDescriptor(d, h) ==
    [k \in DOMAIN d |->
        IF k \in {"suppliedOptions", "body"} THEN Deep(h, d[k]) ELSE d[k]]

\* ---------------------------------------------------------------- C1
RoutingMethod(op) ==
    CASE op = "createSprint" -> "POST"
      [] op = "getSprint" -> "GET"
      [] op = "updateSprint" -> "PUT"
      [] op = "partiallyUpdateSprint" -> "POST"
      [] op = "deleteSprint" -> "DELETE"
      [] op = "getSprintIssues" -> "GET"
      [] op = "moveSprintIssues" -> "POST"
      [] op = "swapSprint" -> "POST"

\* the path templates, "{id}" standing for the identifier
PathTemplate(op) ==
    CASE op = "createSprint" -> <<"/", "s", "p", "r", "i", "n", "t">>
      [] op \in {"getSprint", "updateSprint", "partiallyUpdateSprint", "deleteSprint"} ->
            <<"/", "s", "p", "r", "i", "n", "t", "/", "{id}">>
      [] op \in {"getSprintIssues", "moveSprintIssues"} ->
            <<"/", "s", "p", "r", "i", "n", "t", "/", "{id}", "/", "i", "s", "s", "u", "e">>
      [] op = "swapSprint" ->
            <<"/", "s", "p", "r", "i", "n", "t", "/", "{id}", "/", "s", "w", "a", "p">>

RECURSIVE Substitute(_, _)
Substitute(template, text) ==
    IF template = <<>> THEN <<>>
    ELSE (IF Head(template) = "{id}" THEN text ELSE <<Head(template)>>)
            \o Substitute(Tail(template), text)

\* the characters of an identifier as the caller wrote it
IdText(id) ==
    CASE id = Num(331) -> <<"3", "3", "1">>
      [] id = Str(<<"7">>) -> <<"7">>

NoPlaceholder(url) == \A i \in 1..Len(url) : url[i] \notin {"{id}", "{", "}"}

\* C1: whenever an operation is given its identifier (createSprint needs
\* none), the descriptor it hands to Transport has the method of the routing
\* table and the URL the resolver gives for the operation's path template
\* with the identifier's characters in place of {id}, with no placeholder
\* left in it.
C1_RoutingTable ==
    \A j \in 1..Len(log) :
        LET e == log[j] IN
        (WithOptions(e) /\ (e.op = "createSprint" \/ SuppliedId(e) # Undefined)) =>
            /\ ~e.threw
            /\ Len(e.requests) = 1
            /\ Handed(e).method = RoutingMethod(e.op)
            /\ Handed(e).uri =
                  buildAgileURL(
                      IF e.op = "createSprint" THEN PathTemplate(e.op)
                      ELSE Substitute(PathTemplate(e.op), IdText(SuppliedId(e))))
            /\ NoPlaceholder(Handed(e).uri)

C1_Witness ==
    \E j \in 1..Len(log) :
        /\ log[j].op = "swapSprint"
        /\ SuppliedId(log[j]) = Num(331)
        /\ Handed(log[j]).method = "POST"
        /\ Handed(log[j]).uri =
              AgileBase \o <<"/", "s", "p", "r", "i", "n", "t", "/", "3", "3", "1",
                             "/", "s", "w", "a", "p">>

\* ---------------------------------------------------------------- C2
\* the object the write operation takes its body from
PayloadSource(e) ==
    IF e.op = "moveSprintIssues" THEN e.opts.num ELSE e.before[e.opts.num]["data"].num

\* C2: for updateSprint, partiallyUpdateSprint, swapSprint and
\* moveSprintIssues the body Transport receives has no sprintId key, and
\* every other key of the payload is in it with the value the caller gave.
C2_BodyWithoutIdentifier ==
    \A j \in 1..Len(log) :
        LET e == log[j] IN
        (WithOptions(e) /\ e.op \in {"updateSprint", "partiallyUpdateSprint",
                                     "swapSprint", "moveSprintIssues"}) =>
            /\ Len(e.requests) = 1
            /\ "body" \in DOMAIN Handed(e)
            /\ Handed(e).body.type = "object"
            /\ LET body == e.after[Handed(e).body.num]
                   payload == e.before[PayloadSource(e)]
               IN  /\ "sprintId" \notin DOMAIN body
                   /\ \A k \in DOMAIN payload \ {"sprintId"} :
                         k \in DOMAIN body /\ body[k] = payload[k]

C2_Witness ==
    \E j \in 1..Len(log) :
        /\ log[j].op = "updateSprint"
        /\ log[j].before[PayloadSource(log[j])] =
              [k \in {"sprintId", "name"} |-> IF k = "name" THEN Str(<<"S", "5">>) ELSE Num(331)]
        /\ log[j].after[Handed(log[j]).body.num] = [k \in {"name"} |-> Str(<<"S", "5">>)]

\* ---------------------------------------------------------------- C3
DeclaredQuery(op) ==
    IF op = "getSprintIssues"
    THEN {"startAt", "maxResults", "jql", "validateQuery", "fields", "expand"}
    ELSE {"filter", "startAt", "maxResults"}

\* C3: for getSprint, deleteSprint and getSprintIssues the query mapping has
\* exactly the declared keys, a supplied key with the caller's value and an
\* unsupplied key with undefined, and the descriptor has no body.
C3_QueryKeys ==
    \A j \in 1..Len(log) :
        LET e == log[j] IN
        (WithOptions(e) /\ e.op \in {"getSprint", "deleteSprint", "getSprintIssues"}) =>
            /\ Len(e.requests) = 1
            /\ "qs" \in DOMAIN Handed(e)
            /\ DOMAIN Handed(e).qs = DeclaredQuery(e.op)
            /\ \A k \in DeclaredQuery(e.op) :
                  Handed(e).qs[k] =
                      IF k \in DOMAIN e.before[e.opts.num]
                      THEN e.before[e.opts.num][k] ELSE Undefined
            /\ "body" \notin DOMAIN Handed(e)

C3_Witness ==
    \E j \in 1..Len(log) :
        /\ log[j].op = "getSprint"
        /\ WithOptions(log[j])
        /\ DOMAIN log[j].before[log[j].opts.num] = {"sprintId", "maxResults"}
        /\ Handed(log[j]).qs =
              [k \in {"filter", "startAt", "maxResults"} |->
                  IF k = "maxResults" THEN Num(50) ELSE Undefined]

\* ---------------------------------------------------------------- C4
\* C4: an operation called with options makes one Transport call, with its
\* one descriptor and the caller's callback, and returns the deferred that
\* Transport returned; Transport holds one request per call, and whatever
\* outcome that deferred settles with is what the callback was called with,
\* once.
C4_DualDispatch ==
    /\ Len(inflight) = Cardinality({j \in 1..Len(log) : WithOptions(log[j])})
    /\ \A j \in 1..Len(log) :
          LET e == log[j] IN
          WithOptions(e) =>
              /\ ~e.threw
              /\ Len(e.requests) = 1
              /\ e.requests[1].callback = e.callback
              /\ e.ret = e.requests[1].returned
              /\ e.ret.type = "promise"
              /\ e.ret.num \in 1..Len(inflight)
              /\ inflight[e.ret.num].options = Handed(e)
              /\ notified[j] =
                    IF e.callback.type = "function"
                       /\ inflight[e.ret.num].outcome # "pending"
                    THEN <<inflight[e.ret.num].outcome>>
                    ELSE <<>>

C4_Witness ==
    \E j \in 1..Len(log) :
        /\ WithOptions(log[j])
        /\ log[j].callback = Fn(j)
        /\ log[j].ret.type = "promise"
        /\ inflight[log[j].ret.num].outcome = "rejected"
        /\ notified[j] = <<"rejected">>

\* ---------------------------------------------------------------- C5
\* C5: an operation that needs the identifier and is given options (or a
\* payload) without one fails at once and hands nothing to Transport.
C5_MissingIdentifierSignalled ==
    \A j \in 1..Len(log) :
        LET e == log[j] IN
        (WithOptions(e) /\ e.op # "createSprint" /\ SuppliedId(e) = Undefined) =>
            e.threw /\ e.requests = <<>>

C7_OptionsUntouched ==
    \A j \in 1..Len(log) :
        WithOptions(log[j]) =>
            Deep(log[j].after, log[j].opts) = Deep(log[j].before, log[j].opts)

\* C7 as amended: an operation adds no key and changes no value, and the
\* only key it may remove is sprintId: moveSprintIssues removes it from the
\* options object, updateSprint, partiallyUpdateSprint and swapSprint leave
\* the options object as it was and touch only sprintId of the payload, and
\* createSprint, getSprint, deleteSprint and getSprintIssues change nothing.
C7_OnlyIdentifierDeleted ==
    \A j \in 1..Len(log) :
        LET e == log[j] IN
        WithOptions(e) =>
            /\ Len(e.after) = Len(e.before)
            /\ \A a \in 1..Len(e.before) :
                  /\ DOMAIN e.after[a] \subseteq DOMAIN e.before[a]
                  /\ \A k \in DOMAIN e.before[a] \ {"sprintId"} :
                        k \in DOMAIN e.after[a] /\ e.after[a][k] = e.before[a][k]
                  /\ "sprintId" \in DOMAIN e.after[a] =>
                        e.after[a]["sprintId"] = e.before[a]["sprintId"]
            /\ e.op \in {"createSprint", "getSprint", "deleteSprint", "getSprintIssues"} =>
                  e.after = e.before
            /\ e.op = "moveSprintIssues" =>
                  /\ "sprintId" \notin DOMAIN e.after[e.opts.num]
                  /\ \A a \in 1..Len(e.before) :
                        a # e.opts.num => e.after[a] = e.before[a]
            /\ e.op \in {"updateSprint", "partiallyUpdateSprint", "swapSprint"} =>
                  \A a \in 1..Len(e.before) :
                      a # PayloadSource(e) => e.after[a] = e.before[a]

C7_Witness ==
    \E j \in 1..Len(log) :
        /\ log[j].op = "moveSprintIssues"
        /\ WithOptions(log[j])
        /\ DOMAIN log[j].before[log[j].opts.num] = {"sprintId", "maxResults", "issues"}
        /\ DOMAIN log[j].after[log[j].opts.num] = {"maxResults", "issues"}

\* ---------------------------------------------------------------- C8
\* the objects a caller wrote for its own call, as they are with no other
\* caller about
OwnCount(e) == IF e.op \in PayloadOperations THEN 2 ELSE 1

AloneHeap(e) ==
    IF e.op \in PayloadOperations
    THEN <<e.before[e.before[e.opts.num]["data"].num], [k \in {"data"} |-> Ref(1)]>>
    ELSE <<e.before[e.opts.num]>>

AloneRun(e) == Apply(e.op, AloneHeap(e), Ref(OwnCount(e)), e.callback, 0)

\* C8: an invocation on an options object of its own hands Transport the
\* descriptor it would hand over with no other invocation before it, refers
\* in it to its own object, and leaves the objects of the other callers as
\* they were.
C8_NoInterference ==
    \A j \in 1..Len(log) :
        LET e == log[j] IN
        e.fresh =>
            /\ ~e.threw
            /\ Len(e.requests) = 1
            /\ Handed(e).suppliedOptions = e.opts
            /\ DeepDescriptor(Handed(e), e.after) =
                  DeepDescriptor(AloneRun(e).requests[1].options, AloneRun(e).heap)
            /\ \A a \in 1..(Len(e.before) - OwnCount(e)) : e.after[a] = e.before[a]

C8_Witness ==
    \E j \in 2..Len(log) :
        /\ log[j].fresh /\ log[j - 1].fresh
        /\ log[j - 1].op = "moveSprintIssues"
        /\ log[j].op = "getSprintIssues"
        /\ SuppliedId(log[j - 1]) = Num(331)
        /\ SuppliedId(log[j]) = Str(<<"7">>)

\* ---------------------------------------------------------------- C9
\* C9: an operation calls the URL Resolver once, with a path that begins
\* with /sprint, and the url of its descriptor is what the resolver returned.
C9_UrlFromResolver ==
    \A j \in 1..Len(log) :
        LET e == log[j] IN
        WithOptions(e) =>
            /\ Len(e.resolved) = 1
            /\ IsPrefix(<<"/", "s", "p", "r", "i", "n", "t">>, e.resolved[1])
            /\ Len(e.requests) = 1
            /\ Handed(e).uri = buildAgileURL(e.resolved[1])

C9_Witness ==
    \E j \in 1..Len(log) :
        /\ log[j].op = "getSprintIssues"
        /\ WithOptions(log[j])
        /\ log[j].resolved =
              <<(<<"/", "s", "p", "r", "i", "n", "t", "/", "7", "/", "i", "s", "s", "u", "e">>)>>
        /\ Handed(log[j]).uri = buildAgileURL(log[j].resolved[1])

\* --------------------------------------------------------------- C10
UndefinedText == <<"u", "n", "d", "e", "f", "i", "n", "e", "d">>

\* C10: moveSprintIssues hands over the caller's own options object, with
\* sprintId deleted from it, as body and as suppliedOptions; and when that
\* object is later passed to moveSprintIssues, getSprint, deleteSprint or
\* getSprintIssues, the call is not rejected and the URL handed to Transport
\* has "undefined" where the identifier belongs.
C10_ReusedOptionsLoseIdentifier ==
    /\ \A j \in 1..Len(log) :
          LET e == log[j] IN
          (WithOptions(e) /\ e.op = "moveSprintIssues") =>
              /\ Len(e.requests) = 1
              /\ Handed(e).body = e.opts
              /\ Handed(e).suppliedOptions = e.opts
              /\ "sprintId" \notin DOMAIN e.after[e.opts.num]
    /\ \A i, j \in 1..Len(log) :
          (/\ i < j
           /\ WithOptions(log[i])
           /\ log[i].op = "moveSprintIssues"
           /\ log[j].opts = log[i].opts
           /\ log[j].op \in {"moveSprintIssues", "getSprint", "deleteSprint",
                             "getSprintIssues"}) =>
              /\ ~log[j].threw
              /\ Len(log[j].requests) = 1
              /\ Handed(log[j]).uri =
                    buildAgileURL(Substitute(PathTemplate(log[j].op), UndefinedText))

C10_Witness ==
    \E i, j \in 1..Len(log) :
        /\ i < j
        /\ log[i].op = "moveSprintIssues"
        /\ WithOptions(log[i])
        /\ SuppliedId(log[i]) = Num(331)
        /\ log[j].opts = log[i].opts
        /\ log[j].op = "getSprint"
        /\ Handed(log[j]).uri =
              AgileBase \o <<"/", "s", "p", "r", "i", "n", "t", "/">> \o UndefinedText

====
